---- MODULE Spec2Model ----
(***************************************************************************)
(* VLVector<T, StaticCapacity> of src/VLVector.hpp: a vector that keeps    *)
(* its elements in the inline array _statData until they no longer fit and *)
(* then moves them to a heap array.                                        *)
(*                                                                         *)
(* A container is a record of its fields (_dynamic, _size, _capacity,      *)
(* _curData), of the cells of its inline array (stat) and of the heap      *)
(* blocks its own methods allocated (heap).  A pointer is 0 for            *)
(* &_statData[0] and a heap address otherwise; an iterator is a pointer    *)
(* and an index.                                                           *)
(*                                                                         *)
(* Only the cells [0, _size) of the active buffer hold elements.  Every    *)
(* other cell is dead: each dead cell an operation reads is overwritten    *)
(* before that operation returns, so no result depends on its value, and   *)
(* the state keeps no value for it.  A read of a dead cell, of a released  *)
(* block or past the end of a buffer yields Junk, an arbitrary value.      *)
(***************************************************************************)
EXTENDS Integers, Sequences, FiniteSets, TLC

\* The template parameter StaticCapacity (N).
StaticCapacity == 1

\* No operation is started that would take _size above MaxSize.
MaxSize == 4

\* The longest run of appends SpecPush follows.
MaxPushes == 7

\* Longest source range handed to the range insert and the range constructor.
MaxRange == 2

\* sizeof(T).
SizeofT == 2

STARTING_SIZE == 0
FIRST_IDX == 0
INCREASE_INC == 1
NEXT_ELEM == 1

\* The element values the callers store.
Val == {1, 2}

\* T(): the value of a value-initialised element (new T[n]()).
ValueInit == 0

\* An indeterminate value.
Junk == 0 - 1

\* Heap addresses available to one container's allocations.
Addr == {1, 2}

\* &_statData[FIRST_IDX]
StatPtr == 0

\* vlv is the container (*this); last describes the operation that led here.
VARIABLES vlv, last

vars == <<vlv, last>>

Min(x, y) == IF x < y THEN x ELSE y

----------------------------------------------------------------------------
\* Memory: cells, blocks, loads and stores.

DeadBlock == [live |-> FALSE, len |-> 0, cells |-> <<>>]

Pad(s, n) == IF n <= Len(s) THEN s ELSE s \o [k \in 1..(n - Len(s)) |-> Junk]

SetCell(s, i, x) == [Pad(s, i + 1) EXCEPT ![i + 1] = x]

IsLive(c, p) == p = StatPtr \/ c.heap[p].live

Cells(c, p) == IF p = StatPtr THEN c.stat ELSE c.heap[p].cells

Extent(c, p) == IF p = StatPtr THEN StaticCapacity ELSE c.heap[p].len

\* p[i] as an rvalue.
Load(c, p, i) ==
    IF IsLive(c, p) /\ i < Len(Cells(c, p)) THEN Cells(c, p)[i + 1] ELSE Junk

\* What the read of p[i] does wrong, if anything.
LoadEv(c, p, i) ==
    IF ~IsLive(c, p) THEN {"use_after_free"}
    ELSE IF i >= Extent(c, p) THEN {"out_of_bounds"}
    ELSE {}

\* p[i] = x.  A store past the inline array lands on the members that follow
\* it; a store into a released block or past a block's end is lost.
Store(c, p, i, x) ==
    IF ~IsLive(c, p) THEN [c EXCEPT !.ev = @ \cup {"use_after_free"}]
    ELSE IF i >= Extent(c, p)
        THEN [c EXCEPT !.ev = @ \cup {"out_of_bounds"} \cup
                 (IF p = StatPtr THEN {"stat_overflow"} ELSE {}) \cup
                 (IF p = StatPtr /\ i = StaticCapacity THEN {"hit_dynamic"} ELSE {})]
    ELSE IF p = StatPtr THEN [c EXCEPT !.stat = SetCell(@, i, x)]
    ELSE [c EXCEPT !.heap[p].cells = SetCell(@, i, x)]

\* new T[n]() at address t.
Alloc(c, t, n) ==
    [c EXCEPT !.heap[t] = [live |-> TRUE, len |-> n, cells |-> [k \in 1..n |-> ValueInit]],
              !.ev = @ \cup {"alloc"}]

\* delete[] p
Free(c, p) ==
    IF p = StatPtr THEN [c EXCEPT !.ev = @ \cup {"invalid_free"}]
    ELSE IF c.heap[p].live THEN [c EXCEPT !.heap[p] = DeadBlock, !.ev = @ \cup {"free"}]
    ELSE [c EXCEPT !.ev = @ \cup {"double_free"}]

\* The address operator new[] returns: an address that holds no live block.
\* When _curData dangles, the allocator may hand the same address out again.
NewAddr(c, reuse) ==
    IF c._curData = StatPtr THEN 1
    ELSE IF ~c.heap[c._curData].live /\ reuse THEN c._curData
    ELSE 3 - c._curData

\* for (k = 0; k < n; ++k) dst[di + k] = src[si + k]
RECURSIVE CopyFwd(_, _, _, _, _, _)
CopyFwd(c, src, si, dst, di, n) ==
    IF n <= 0 THEN c
    ELSE CopyFwd(Store([c EXCEPT !.ev = @ \cup LoadEv(c, src, si)], dst, di, Load(c, src, si)),
                 src, si + 1, dst, di + 1, n - 1)

\* for (k = n; k-- > 0;) dst[di + k] = src[si + k]
RECURSIVE CopyBwd(_, _, _, _, _, _)
CopyBwd(c, src, si, dst, di, n) ==
    IF n <= 0 THEN c
    ELSE CopyBwd(Store([c EXCEPT !.ev = @ \cup LoadEv(c, src, si + n - 1)],
                       dst, di + n - 1, Load(c, src, si + n - 1)),
                 src, si, dst, di, n - 1)

\* std::copy(s.begin(), s.end(), dst + di) for a sequence s of values.
RECURSIVE CopySeq(_, _, _, _)
CopySeq(c, s, dst, di) ==
    IF s = <<>> THEN c
    ELSE CopySeq(Store(c, dst, di, Head(s)), Tail(s), dst, di + 1)

----------------------------------------------------------------------------
\* The private members and the accessors.

data(c) == c._curData

size(c) == c._size

capacity(c) == c._capacity

\* The elements begin() .. end() denotes, as reads of the active buffer.
Elems(c) == [k \in 1..c._size |-> Load(c, data(c), k - 1)]

\* What reading begin() .. end() does wrong.
ElemsEv(c) == UNION {LoadEv(c, data(c), k - 1) : k \in 1..c._size}

\* An iterator: the buffer it points into and the index in it.
Iter(p, i) == [base |-> p, idx |-> i]

NoIter == [base |-> StatPtr, idx |-> 0 - 1]

\* The growth formula without the increment: size * 3 / 2.
GrownCapacity_noInc(s) == (s * 3) \div 2

GrownCapacity(s) == ((s + INCREASE_INC) * 3) \div 2

\* A growth that forgets to copy the elements to the new array.
_increaseCapacity_noCopy(c, reuse) ==
    LET cap == GrownCapacity(c._size)
        temp == NewAddr(c, reuse)
        c1 == Alloc([c EXCEPT !._capacity = cap], temp, SizeofT * cap)
        c3 == IF c1._dynamic THEN Free(c1, c1._curData) ELSE c1
    IN [c3 EXCEPT !._curData = temp, !._dynamic = TRUE, !.ev = @ \cup {"grow"}]

\* copied is the number of cells the loop read out of the old array.
_increaseCapacity(c, reuse) ==
    LET cap == GrownCapacity(c._size)
        temp == NewAddr(c, reuse)
        c1 == Alloc([c EXCEPT !._capacity = cap], temp, SizeofT * cap)
        c2 == CopyFwd(c1, data(c1), FIRST_IDX, temp, FIRST_IDX, c1._size)
        c3 == IF c2._dynamic THEN Free(c2, c2._curData) ELSE c2
    IN [c3 EXCEPT !._curData = temp, !._dynamic = TRUE, !.ev = @ \cup {"grow"},
                  !.copied = c1._size]

_decreaseCapacity(c) ==
    LET c1 == CopyFwd(c, c._curData, FIRST_IDX, StatPtr, FIRST_IDX, c._size)
        c2 == Free(c1, c1._curData)
    IN [c2 EXCEPT !._curData = StatPtr, !._capacity = StaticCapacity,
                  !._dynamic = FALSE, !.ev = @ \cup {"shrink"}]

\* VLVector()
EmptyVec ==
    [alive |-> TRUE, _dynamic |-> FALSE, _size |-> STARTING_SIZE,
     _capacity |-> StaticCapacity, _curData |-> StatPtr, stat |-> <<>>,
     heap |-> [p \in Addr |-> DeadBlock], ev |-> {}, copied |-> 0]

\* A push_back that grows only once the size is already above the capacity.
push_back_lateGrow(c, toAdd, reuse) ==
    LET c1 == IF c._size > c._capacity THEN _increaseCapacity(c, reuse) ELSE c
        c2 == Store(c1, data(c1), c1._size, toAdd)
    IN [c2 EXCEPT !._size = @ + 1]

\* A push_back that increments _size before it stores: data()[++_size] = toAdd.
push_back_preInc(c, toAdd, reuse) ==
    LET c1 == IF c._size = c._capacity THEN _increaseCapacity(c, reuse) ELSE c
        c2 == Store(c1, data(c1), c1._size + 1, toAdd)
    IN [c2 EXCEPT !._size = @ + 1]

push_back(c, toAdd, reuse) ==
    LET c1 == IF c._size = c._capacity THEN _increaseCapacity(c, reuse) ELSE c
        c2 == Store(c1, data(c1), c1._size, toAdd)
    IN [c2 EXCEPT !._size = @ + 1]

\* insert(iter, toAdd) with iter = cbegin() + inPlc.  The loop moves the cells
\* [inPlc, _size) one place to the right, last cell first.
insert(c, inPlc, toAdd, reuse) ==
    LET c1 == IF c._size = c._capacity THEN _increaseCapacity(c, reuse) ELSE c
        c2 == CopyBwd(c1, data(c1), inPlc, data(c1), inPlc + 1, c1._size - inPlc)
        c3 == Store(c2, data(c2), inPlc, toAdd)
    IN [vec |-> [c3 EXCEPT !._size = @ + 1], ret |-> Iter(data(c1), inPlc)]

\* while (first != last) push_back(*(first++)) on a container.
RECURSIVE PushAll(_, _)
PushAll(c, s) ==
    IF s = <<>> THEN c ELSE PushAll(push_back(c, Head(s), FALSE), Tail(s))

\* insert(iter, first, last) with iter = cbegin() + inPlc and [first, last)
\* holding the values r (read with the faults rEv, none for a caller's range).
\* The local vector `after` is filled by push_back and read back through its
\* begin() .. end().
insertRange(c, inPlc, r, rEv, reuse) ==
    LET tail == [k \in 1..(c._size - inPlc) |-> Load(c, data(c), inPlc + k - 1)]
        tailEv == UNION {LoadEv(c, data(c), inPlc + k - 1) : k \in 1..(c._size - inPlc)}
        after == PushAll(EmptyVec, tail)
        c0 == [c EXCEPT !._size = @ + Len(r), !.ev = @ \cup tailEv \cup rEv]
        c1 == IF c0._size > c0._capacity THEN _increaseCapacity(c0, reuse) ELSE c0
        c2 == CopySeq(c1, r, data(c1), inPlc)
        c3 == CopySeq(c2, Elems(after), data(c2), inPlc + Len(r))
    IN [vec |-> c3, ret |-> Iter(data(c1), inPlc)]

pop_back(c) ==
    LET c1 == [c EXCEPT !._size = @ - 1]
    IN IF c1._size <= StaticCapacity /\ c1._dynamic THEN _decreaseCapacity(c1) ELSE c1

\* erase(iter) with iter = cbegin() + i.
erase(c, i) ==
    LET insTo == Iter(data(c), i)
        first == i + NEXT_ELEM
        c1 == CopyFwd(c, data(c), first, data(c), i, c._size - first)
        c2 == [c1 EXCEPT !._size = @ - 1]
        c3 == IF c2._size <= StaticCapacity /\ c2._dynamic THEN _decreaseCapacity(c2) ELSE c2
    IN [vec |-> c3, ret |-> insTo]

\* erase(first, last) with first = cbegin() + i and last = cbegin() + j.
eraseRange(c, i, j) ==
    LET copyTo == Iter(data(c), i)
        c1 == CopyFwd(c, data(c), j, data(c), i, c._size - j)
        c2 == [c1 EXCEPT !._size = @ - (j - i)]
        c3 == IF c2._size <= StaticCapacity /\ c2._dynamic THEN _decreaseCapacity(c2) ELSE c2
    IN [vec |-> c3, ret |-> copyTo]

clear(c) ==
    LET c1 == IF c._dynamic
              THEN [Free(c, c._curData) EXCEPT !._curData = StatPtr, !._dynamic = FALSE]
              ELSE c
    IN [c1 EXCEPT !._size = STARTING_SIZE]

\* *this = rhs for this != &rhs.
assign(c, rhs, reuse) ==
    LET c1 == IF c._dynamic THEN Free(c, c._curData) ELSE c
        c2 == [c1 EXCEPT !._capacity = capacity(rhs)]
        t == NewAddr(c2, reuse)
        c3 == IF c2._capacity > StaticCapacity
              THEN [Alloc(c2, t, c2._capacity * SizeofT) EXCEPT !._curData = t, !._dynamic = TRUE]
              ELSE c2
    IN insertRange(c3, FIRST_IDX, Elems(rhs), ElemsEv(rhs), reuse).vec

\* ~VLVector()
destroy(c) ==
    LET c1 == IF c._dynamic THEN Free(c, c._curData) ELSE c
    IN [EmptyVec EXCEPT !.alive = FALSE, !.heap = c1.heap, !.ev = c1.ev]

\* std::equal(first1, last1, first2) over the n cells at a and at b, first
\* difference ends the loop.
RECURSIVE StdEqual(_, _, _, _)
StdEqual(a, b, k, n) ==
    IF k >= n THEN TRUE
    ELSE IF Load(a, data(a), k) # Load(b, data(b), k) THEN FALSE
    ELSE StdEqual(a, b, k + 1, n)

\* What the reads of that loop do wrong.
RECURSIVE StdEqualEv(_, _, _, _)
StdEqualEv(a, b, k, n) ==
    IF k >= n THEN {}
    ELSE LoadEv(a, data(a), k) \cup LoadEv(b, data(b), k) \cup
         (IF Load(a, data(a), k) # Load(b, data(b), k) THEN {}
          ELSE StdEqualEv(a, b, k + 1, n))

\* An operator== that leaves the comparison of the sizes out.
equals_noSize(a, toComp) == StdEqual(a, toComp, FIRST_IDX, size(a))

\* *this == toComp
equals(a, toComp) == size(a) = size(toComp) /\ StdEqual(a, toComp, FIRST_IDX, size(a))

\* An at() that lets the index size() through.
at_offByOne(c, idx) ==
    IF idx > c._size THEN [threw |-> TRUE, ref |-> NoIter]
    ELSE [threw |-> FALSE, ref |-> Iter(data(c), idx)]

\* at(idx): throws std::out_of_range or returns the reference operator[] gives.
at(c, idx) ==
    IF idx >= c._size THEN [threw |-> TRUE, ref |-> NoIter]
    ELSE [threw |-> FALSE, ref |-> Iter(data(c), idx)]

----------------------------------------------------------------------------
\* The state between two operations.

\* Drops the values of the dead cells and the record of the operation's steps.
Scrub(c) ==
    LET p == c._curData
        n == Min(c._size, Extent(c, p))
        live == [k \in 1..n |-> Load(c, p, k - 1)]
        c0 == [c EXCEPT !.ev = {}, !.copied = 0]
    IN IF p = StatPtr THEN [c0 EXCEPT !.stat = live]
       ELSE IF c.heap[p].live THEN [c0 EXCEPT !.stat = <<>>, !.heap[p].cells = live]
       ELSE [c0 EXCEPT !.stat = <<>>]

\* What a caller can see of a container.
Snap(c) ==
    [_size |-> c._size, _capacity |-> c._capacity, _dynamic |-> c._dynamic,
     _curData |-> c._curData, elems |-> Elems(c)]

NoSnap == [_size |-> 0, _capacity |-> 0, _dynamic |-> FALSE, _curData |-> StatPtr, elems |-> <<>>]

\* The outcomes of a store to _statData[StaticCapacity]: the byte after the
\* array is _dynamic, which the store leaves alone or makes true.
DynamicOutcomes(c) ==
    IF "hit_dynamic" \in c.ev THEN {c._dynamic, TRUE} ELSE {c._dynamic}

NoArgs == [i |-> 0, j |-> 0, x |-> 0, r |-> <<>>, src |-> NoSnap]

\* The caller holds the result of no call.
NoCall ==
    [op |-> "none", args |-> NoArgs, pre |-> NoSnap, ret |-> NoIter, ev |-> {},
     out |-> "ok", copied |-> 0]

\* The caller calls op(args): it runs from vlv to c and ends with out: "ok",
\* the value "true" or "false", or "throw"; ret is the iterator it returns.
DoneOut(op, args, c, ret, out) ==
    /\ last = NoCall
    /\ \E d \in DynamicOutcomes(c) :
          /\ vlv' = Scrub([c EXCEPT !._dynamic = d])
          /\ last' = [op |-> op, args |-> args, pre |-> Snap(vlv),
                      ret |-> ret, ev |-> c.ev \ {"hit_dynamic"},
                      out |-> out, copied |-> c.copied]

Done(op, args, c, ret) == DoneOut(op, args, c, ret, "ok")

\* The caller lets go of what the call returned, before its next call.
Return ==
    /\ last # NoCall
    /\ last' = NoCall
    /\ UNCHANGED vlv

Init ==
    /\ vlv = EmptyVec
    /\ last = NoCall

\* The sequences of values of length lo .. hi.
SeqsOf(lo, hi) == UNION {[1..n -> Val] : n \in lo..hi}

\* The caller's source ranges.
Ranges == SeqsOf(0, MaxRange)

\* The other containers of the program, the right-hand sides of a copy: one
\* built from a range, and one that was cleared afterwards.
Sources ==
    LET built == {PushAll(EmptyVec, r) : r \in SeqsOf(0, StaticCapacity + 1)}
    IN {Scrub(s) : s \in built} \cup {Scrub(clear(s)) : s \in built}

\* The allocator's choices: only a dangling _curData can be handed out again.
Reuse == IF IsLive(vlv, vlv._curData) THEN {FALSE} ELSE BOOLEAN

\* VLVector v;
Construct ==
    /\ ~vlv.alive
    /\ Done("ctor", NoArgs, EmptyVec, NoIter)

\* VLVector v(rhs);
CopyConstruct ==
    /\ ~vlv.alive
    /\ \E rhs \in Sources :
          Done("copy_ctor", [NoArgs EXCEPT !.src = Snap(rhs)],
               assign(EmptyVec, rhs, FALSE), NoIter)

\* VLVector v(first, last);
RangeConstruct ==
    /\ ~vlv.alive
    /\ \E r \in Ranges :
          Done("range_ctor", [NoArgs EXCEPT !.r = r], PushAll(EmptyVec, r), NoIter)

\* v goes out of scope.
Destroy ==
    /\ vlv.alive
    /\ Done("dtor", NoArgs, destroy(vlv), NoIter)

PushBack ==
    /\ vlv.alive
    /\ vlv._size < MaxSize
    /\ \E x \in Val, reuse \in Reuse :
          Done("push_back", [NoArgs EXCEPT !.x = x], push_back(vlv, x, reuse), NoIter)

Insert ==
    /\ vlv.alive
    /\ vlv._size < MaxSize
    /\ \E i \in 0..vlv._size, x \in Val, reuse \in Reuse :
          LET res == insert(vlv, i, x, reuse)
          IN Done("insert", [NoArgs EXCEPT !.i = i, !.x = x], res.vec, res.ret)

InsertRange ==
    /\ vlv.alive
    /\ \E i \in 0..vlv._size, r \in Ranges, reuse \in Reuse :
          /\ vlv._size + Len(r) <= MaxSize
          /\ LET res == insertRange(vlv, i, r, {}, reuse)
             IN Done("insert_range", [NoArgs EXCEPT !.i = i, !.r = r], res.vec, res.ret)

PopBack ==
    /\ vlv.alive
    /\ vlv._size > 0
    /\ Done("pop_back", [NoArgs EXCEPT !.i = vlv._size - 1, !.j = vlv._size],
            pop_back(vlv), NoIter)

Erase ==
    /\ vlv.alive
    /\ \E i \in 0..(vlv._size - 1) :
          LET res == erase(vlv, i)
          IN Done("erase", [NoArgs EXCEPT !.i = i, !.j = i + 1], res.vec, res.ret)

EraseRange ==
    /\ vlv.alive
    /\ \E i \in 0..vlv._size :
          \E j \in i..vlv._size :
              LET res == eraseRange(vlv, i, j)
              IN Done("erase_range", [NoArgs EXCEPT !.i = i, !.j = j], res.vec, res.ret)

Clear ==
    /\ vlv.alive
    /\ Done("clear", NoArgs, clear(vlv), NoIter)

\* v = rhs; with rhs another object.
Assign ==
    /\ vlv.alive
    /\ \E rhs \in Sources, reuse \in BOOLEAN :
          /\ vlv._size + rhs._size <= MaxSize
          /\ Done("assign", [NoArgs EXCEPT !.src = Snap(rhs)], assign(vlv, rhs, reuse), NoIter)

\* v = v; (this == &rhs: nothing is done)
SelfAssign ==
    /\ vlv.alive
    /\ Done("self_assign", [NoArgs EXCEPT !.src = Snap(vlv)], vlv, NoIter)

Next ==
    \/ Return
    \/ Construct
    \/ CopyConstruct
    \/ RangeConstruct
    \/ Destroy
    \/ PushBack
    \/ Insert
    \/ InsertRange
    \/ PopBack
    \/ Erase
    \/ EraseRange
    \/ Clear
    \/ Assign
    \/ SelfAssign

Spec == Init /\ [][Next]_vars

\* push_back in a run of appends alone.
PushOnly ==
    /\ vlv.alive
    /\ vlv._size < MaxPushes
    /\ \E x \in Val, reuse \in Reuse :
          Done("push_back", [NoArgs EXCEPT !.x = x], push_back(vlv, x, reuse), NoIter)

\* The appends alone, from the freshly constructed container.
NextPush ==
    \/ Return
    \/ PushOnly

SpecPush == Init /\ [][NextPush]_vars

\* v.erase(v.insert(pos, x)): the caller hands the iterator insert returned
\* straight to erase.  pre stays the container as it was before the insert.
EraseInserted ==
    /\ vlv.alive
    /\ last.op = "insert"
    /\ last.ret.base = data(vlv)
    /\ LET res == erase(vlv, last.ret.idx)
       IN \E d \in DynamicOutcomes(res.vec) :
             /\ vlv' = Scrub([res.vec EXCEPT !._dynamic = d])
             /\ last' = [op |-> "erase_inserted", args |-> last.args, pre |-> last.pre,
                         ret |-> res.ret, ev |-> (last.ev \cup res.vec.ev) \ {"hit_dynamic"},
                         out |-> "ok", copied |-> res.vec.copied]

\* v == toComp, with toComp another object.
Equals ==
    /\ vlv.alive
    /\ \E toComp \in Sources :
          LET reads == IF size(vlv) = size(toComp)
                       THEN StdEqualEv(vlv, toComp, FIRST_IDX, size(vlv)) ELSE {}
          IN DoneOut("equals", [NoArgs EXCEPT !.src = Snap(toComp)],
                     [vlv EXCEPT !.ev = reads], NoIter,
                     IF equals(vlv, toComp) THEN "true" ELSE "false")

\* v.at(idx), for the indices up to one past size().
At ==
    /\ vlv.alive
    /\ \E idx \in 0..(vlv._size + 1) :
          LET res == at(vlv, idx)
          IN DoneOut("at", [NoArgs EXCEPT !.i = idx], vlv, res.ref,
                     IF res.threw THEN "throw" ELSE "ok")

\* v.clear(); v.clear(); the second call.
ClearAgain ==
    /\ vlv.alive
    /\ last.op = "clear"
    /\ LET c == clear(vlv)
       IN /\ vlv' = Scrub(c)
          /\ last' = [op |-> "clear_again", args |-> NoArgs, pre |-> Snap(vlv),
                      ret |-> NoIter, ev |-> c.ev, out |-> "ok", copied |-> c.copied]

\* The operations, the ones that only read, and the calls that follow a call
\* at once.
NextUse ==
    \/ Next
    \/ EraseInserted
    \/ ClearAgain
    \/ Equals
    \/ At

SpecUse == Init /\ [][NextUse]_vars

----------------------------------------------------------------------------
\* Vocabulary of the properties.

\* The heap blocks the container's methods allocated and did not release.
LiveBlocks(c) == {p \in Addr : c.heap[p].live}

\* s without its elements at the indices [i, j).
RemoveRange(s, i, j) == SubSeq(s, 1, i) \o SubSeq(s, j + 1, Len(s))

\* The container holds exactly the elements s, in a buffer that can be read.
HoldsExactly(c, s) == c._size = Len(s) /\ Elems(c) = s /\ IsLive(c, data(c))

Insertions == {"push_back", "insert", "insert_range"}

Removals == {"pop_back", "erase", "erase_range"}

\* The faults of the memory discipline.
Faults == {"use_after_free", "double_free", "invalid_free", "out_of_bounds"}

----------------------------------------------------------------------------
\* C1: in Static mode the capacity is StaticCapacity and the container owns
\* no heap allocation.
C1_StaticCapacityIsN ==
    (vlv.alive /\ ~vlv._dynamic) =>
        (capacity(vlv) = StaticCapacity /\ LiveBlocks(vlv) = {})

\* C2: in Dynamic mode the capacity is strictly above StaticCapacity and the
\* container owns exactly one live heap allocation, the one _curData points
\* to, of capacity elements.
C2_DynamicOwnsOneBlock ==
    (vlv.alive /\ vlv._dynamic) =>
        /\ capacity(vlv) > StaticCapacity
        /\ LiveBlocks(vlv) = {vlv._curData}
        /\ vlv._curData # StatPtr
        /\ vlv.heap[vlv._curData].len = capacity(vlv)

\* C3: whenever size() <= StaticCapacity the container is in Static mode and
\* owns no heap allocation.
C3_SmallIsStatic ==
    (vlv.alive /\ size(vlv) <= StaticCapacity) =>
        (~vlv._dynamic /\ LiveBlocks(vlv) = {})

\* C4: after a = b the container holds exactly the elements of b, and after
\* a = a its size, capacity, mode and elements are what they were.
C4_AssignCopies ==
    /\ last.op = "assign" => HoldsExactly(vlv, last.args.src.elems)
    /\ last.op = "self_assign" => Snap(vlv) = last.pre

\* C5: no operation releases a block twice or touches a released block, at
\* most one heap block is live at a time, and destruction leaves none.
C5_HeapDiscipline ==
    /\ last.ev \cap {"use_after_free", "double_free", "invalid_free"} = {}
    /\ Cardinality(LiveBlocks(vlv)) <= 1
    /\ ~vlv.alive => LiveBlocks(vlv) = {}

C7_PushesOnly ==
    /\ last.op = "push_back" =>
          /\ size(vlv) = last.pre._size + 1
          /\ HoldsExactly(vlv, Append(last.pre.elems, last.args.x))
    /\ vlv._dynamic <=> size(vlv) > StaticCapacity
    /\ capacity(vlv) >= size(vlv)
    /\ ~vlv._dynamic => capacity(vlv) = StaticCapacity

\* The push of element StaticCapacity + 1 has just moved the elements to the heap.
C7_Witness ==
    /\ last.op = "push_back" /\ "grow" \in last.ev
    /\ ~last.pre._dynamic /\ vlv._dynamic
    /\ size(vlv) = StaticCapacity + 1

\* C8 as stated: every growth by push_back, insert or range insert makes the
\* capacity floor((s + 1) * 3 / 2), s the size before the insertion.
C8_GrowthFromOldSize ==
    (last.op \in Insertions /\ "grow" \in last.ev) =>
        capacity(vlv) = ((last.pre._size + 1) * 3) \div 2

\* C8 amended: a growth by push_back or insert makes the capacity
\* floor((s + 1) * 3 / 2) and a growth by a range insert of k elements makes
\* it floor((s + k + 1) * 3 / 2), s the size before the insertion.
C8_GrowthFormula ==
    (last.op \in Insertions /\ "grow" \in last.ev) =>
        LET k == IF last.op = "insert_range" THEN Len(last.args.r) ELSE 1
        IN /\ last.op # "insert_range" =>
                 capacity(vlv) = ((last.pre._size + 1) * 3) \div 2
           /\ last.op = "insert_range" =>
                 capacity(vlv) = ((last.pre._size + k + 1) * 3) \div 2

\* A range insert of one element into a full inline array has just grown the
\* buffer, to the capacity computed from the size after the insertion.
C8_Witness ==
    /\ last.op = "insert_range" /\ "grow" \in last.ev
    /\ last.pre._size = StaticCapacity /\ Len(last.args.r) = 1
    /\ capacity(vlv) = ((StaticCapacity + 2) * 3) \div 2

\* C9: a removal in Dynamic mode that leaves size() <= StaticCapacity leaves
\* the container Static with capacity StaticCapacity and the remaining
\* elements unchanged, in order: they are the elements the container held,
\* none of them copied out of a released buffer.
C9_RemovalShrinks ==
    (last.op \in Removals /\ last.pre._dynamic /\ size(vlv) <= StaticCapacity) =>
        /\ ~vlv._dynamic
        /\ capacity(vlv) = StaticCapacity
        /\ HoldsExactly(vlv, RemoveRange(last.pre.elems, last.args.i, last.args.j))
        /\ "use_after_free" \notin last.ev

\* C10: the iterator erase returns points into the active buffer as it is
\* after the call, at the index of the erased position, where the element
\* that followed the erased ones now is (end() if none did).
C10_EraseReturnsValidIterator ==
    (last.op \in {"erase", "erase_range"}) =>
        /\ last.ret.base = vlv._curData
        /\ IsLive(vlv, last.ret.base)
        /\ last.ret.idx = last.args.i
        /\ last.ret.idx <= size(vlv)
        /\ last.args.j < last.pre._size =>
              Load(vlv, last.ret.base, last.ret.idx) = last.pre.elems[last.args.j + 1]
        /\ last.args.j = last.pre._size => last.ret.idx = size(vlv)

\* C11: erase(begin + i, begin + j) leaves the elements the container held
\* without those at the indices [i, j), the rest in their order, and the size
\* smaller by j - i; erase(begin + i) is the case j = i + 1.
C11_EraseRemovesRange ==
    (last.op \in {"erase", "erase_range"}) =>
        /\ size(vlv) = last.pre._size - (last.args.j - last.args.i)
        /\ HoldsExactly(vlv, RemoveRange(last.pre.elems, last.args.i, last.args.j))

\* s with x put in before its element at index i.
InsertAt(s, i, x) == SubSeq(s, 1, i) \o <<x>> \o SubSeq(s, i + 1, Len(s))

\* C12: insert(begin + i, v) leaves S[0..i), v, S[i..size), the size larger by
\* one, and returns an iterator into the active buffer as it is after the
\* call, at index i, which dereferences to v.
C12_InsertPlacesValue ==
    last.op = "insert" =>
        /\ size(vlv) = last.pre._size + 1
        /\ HoldsExactly(vlv, InsertAt(last.pre.elems, last.args.i, last.args.x))
        /\ last.ret = Iter(vlv._curData, last.args.i)
        /\ Load(vlv, last.ret.base, last.ret.idx) = last.args.x

\* insert(begin() + i, r[1]); insert(begin() + i + 1, r[2]); ... on c.
RECURSIVE InsertEach(_, _, _)
InsertEach(c, i, r) ==
    IF r = <<>> THEN c
    ELSE InsertEach(insert(c, i, Head(r), FALSE).vec, i + 1, Tail(r))

\* C13: the range insert insert(begin + i, R.begin, R.end) leaves the elements
\* that inserting the elements of R one at a time at the positions i, i + 1,
\* ... leaves, and returns an iterator at index i of the active buffer.
C13_RangeInsertAsSingles ==
    [][last'.op = "insert_range" =>
          LET one == Scrub(InsertEach(vlv, last'.args.i, last'.args.r))
          IN /\ size(vlv') = size(one)
             /\ Elems(vlv') = Elems(one)
             /\ last'.ret = Iter(vlv'._curData, last'.args.i)]_vars

\* C14: erase(insert(begin + i, v)) leaves exactly the elements the container
\* held before the insert, also when the insert grows and the erase shrinks.
C14_EraseUndoesInsert ==
    last.op = "erase_inserted" => HoldsExactly(vlv, last.pre.elems)

\* C15: operator== is true exactly when the two containers have the same size
\* and the same elements in order, whatever their capacities and modes; a
\* container compares equal to one constructed from the range of its elements,
\* and never to one of another size.
C15_EqualityIsContent ==
    last.op = "equals" =>
        /\ last.out \in {"true", "false"}
        /\ last.out = "true" <=>
              (last.pre._size = last.args.src._size /\ last.pre.elems = last.args.src.elems)
        /\ last.pre._size # last.args.src._size => last.out = "false"
        /\ Snap(PushAll(EmptyVec, last.pre.elems)) = last.args.src => last.out = "true"

\* Two containers with the same two elements and different capacities have
\* just compared equal.
C15_Witness ==
    /\ last.op = "equals" /\ last.out = "true"
    /\ last.pre._size = 2
    /\ last.pre._capacity # last.args.src._capacity

\* C16: a container constructed from the range S, of a length below, equal to
\* or above StaticCapacity, holds exactly the elements of S in order between
\* begin() and end().
C16_RangeRoundTrip ==
    last.op = "range_ctor" => HoldsExactly(vlv, last.args.r)

\* A container has just been constructed from a range of StaticCapacity + 1
\* elements that starts with two different ones, and holds them on the heap.
C16_Witness ==
    /\ last.op = "range_ctor"
    /\ Len(last.args.r) = StaticCapacity + 1
    /\ last.args.r[1] # last.args.r[2]
    /\ vlv._dynamic /\ Elems(vlv) = last.args.r

\* C17: at(index) throws exactly when index >= size() and then leaves size,
\* capacity, mode and elements as they were; when index < size() it returns
\* the element at that index of the active buffer.
C17_AtChecksBounds ==
    last.op = "at" =>
        /\ last.out = "throw" <=> last.args.i >= last.pre._size
        /\ Snap(vlv) = last.pre
        /\ last.out = "throw" => last.ret = NoIter
        /\ last.out # "throw" =>
              /\ last.out = "ok"
              /\ last.ret = Iter(vlv._curData, last.args.i)
              /\ Load(vlv, last.ret.base, last.ret.idx) = last.pre.elems[last.args.i + 1]

\* at(size()) has just thrown on a container of two elements.
C17_Witness ==
    /\ last.op = "at" /\ last.out = "throw"
    /\ last.args.i = size(vlv) /\ size(vlv) = 2

\* C18: clear() releases the heap buffer if the container owns one and leaves
\* size 0 and Static mode with no heap allocation owned, from every state; a
\* second clear() leaves the same and changes nothing.
C18_ClearIsIdempotent ==
    /\ last.op \in {"clear", "clear_again"} =>
          /\ size(vlv) = 0 /\ ~vlv._dynamic /\ vlv._curData = StatPtr
          /\ LiveBlocks(vlv) = {}
          /\ last.ev \cap {"double_free", "invalid_free", "use_after_free"} = {}
    /\ last.op = "clear_again" => (Snap(vlv) = last.pre /\ last.ev = {})

\* C19: no push_back, insert or range insert stores an element into the
\* inline array at an index >= StaticCapacity: an insertion in Static mode
\* that takes the size above StaticCapacity moves to a heap buffer first.
C19_NoInlineOverflow ==
    last.op \in Insertions =>
        /\ "stat_overflow" \notin last.ev
        /\ (~last.pre._dynamic /\ size(vlv) > StaticCapacity) => "grow" \in last.ev

\* C20: the copy of a growth by push_back, insert or range insert reads only
\* cells below the number of elements the container held before the
\* insertion, hence below the capacity of the old buffer.
C20_GrowthCopiesOldElements ==
    (last.op \in Insertions /\ "grow" \in last.ev) =>
        /\ last.copied <= last.pre._size
        /\ last.copied <= last.pre._capacity

====
